---- MODULE Spec2Model ----
(***************************************************************************)
(* Model of topojson/core/topology.py: the Topology facade, its            *)
(* construction step _topo, the post-construction transforms topoquantize  *)
(* and toposimplify, and materialisation (to_dict / _resolve_coords).      *)
(*                                                                         *)
(* Python objects live on a heap: a Topology object holds a reference to   *)
(* its output dict and to its options object, so that copy.deepcopy and    *)
(* aliasing are visible.  A dict is a function whose domain is its set of  *)
(* keys.  Numbers are exact rationals [n |-> numerator, d |-> denominator] *)
(* in lowest terms (floating point rounding error is abstracted away);     *)
(* NaN is the rational with denominator 0.                                 *)
(***************************************************************************)
EXTENDS Integers, Sequences, FiniteSets, TLC

(***************************************************************************)
(* Bounds of the model.                                                    *)
(***************************************************************************)
MaxCalls == 2      \* calls made on the constructed topology and its copies
MaxFactor == 3     \* the explicit quantization factors are 2 and MaxFactor
MaxCoord == 2      \* extent of the input geometry
\* The factor a boolean True option stands for.  The source uses 1e6; the
\* model uses a small grid, larger than every explicit factor, because a
\* coordinate quantized twice on a 1e6 grid exceeds 32-bit integers.
DefaultQuantFactor == 5

(***************************************************************************)
(* Rational arithmetic.                                                    *)
(***************************************************************************)
Abs(x) == IF x < 0 THEN -x ELSE x

RECURSIVE GCD(_, _)
GCD(a, b) == IF b = 0 THEN a ELSE GCD(b, a % b)

Rat(n, d) ==
    IF d = 0 THEN [n |-> 0, d |-> 0]
    ELSE LET s == IF d < 0 THEN -1 ELSE 1
             g == GCD(Abs(n), Abs(d))
         IN  [n |-> (s * n) \div g, d |-> (s * d) \div g]

R(k) == [n |-> k, d |-> 1]
NaN == [n |-> 0, d |-> 0]
isnan(r) == r.d = 0

RAdd(a, b) == IF isnan(a) \/ isnan(b) THEN NaN
              ELSE LET g == GCD(a.d, b.d)
                   IN  Rat(a.n * (b.d \div g) + b.n * (a.d \div g), (a.d \div g) * b.d)
RNeg(a) == [n |-> -a.n, d |-> a.d]
RSub(a, b) == RAdd(a, RNeg(b))
\* cross-cancel before multiplying, so that intermediate products stay small
RMul(a, b) == IF isnan(a) \/ isnan(b) THEN NaN
              ELSE LET g1 == GCD(Abs(a.n), b.d)
                       g2 == GCD(Abs(b.n), a.d)
                       h1 == IF g1 = 0 THEN 1 ELSE g1
                       h2 == IF g2 = 0 THEN 1 ELSE g2
                   IN  Rat((a.n \div h1) * (b.n \div h2), (a.d \div h2) * (b.d \div h1))
\* b is not zero
RDiv(a, b) == RMul(a, Rat(b.d, b.n))
RLess(a, b) == a.n * b.d < b.n * a.d
RMin(a, b) == IF RLess(b, a) THEN b ELSE a
RMax(a, b) == IF RLess(a, b) THEN b ELSE a

\* numpy's round(): to the nearest integer, ties to the even one
Round(r) ==
    LET fl == r.n \div r.d
        rem2 == 2 * (r.n - fl * r.d)
    IN  IF rem2 < r.d THEN fl
        ELSE IF rem2 > r.d THEN fl + 1
        ELSE IF fl % 2 = 0 THEN fl ELSE fl + 1

\* Python's int(): truncation toward zero
int(r) == IF r.n >= 0 THEN r.n \div r.d ELSE -((-r.n) \div r.d)

(***************************************************************************)
(* Python values of the options: a bool or a number.  True > 0 and         *)
(* False > 0 compare as 1 and 0.                                           *)
(***************************************************************************)
PyFalse == [bool |-> TRUE, val |-> R(0)]
PyTrue == [bool |-> TRUE, val |-> R(1)]
PyNum(r) == [bool |-> FALSE, val |-> r]
Positive(v) == v.val.n > 0

(***************************************************************************)
(* Dicts.                                                                  *)
(***************************************************************************)
Put(d, key, v) == [k \in DOMAIN d \cup {key} |-> IF k = key THEN v ELSE d[k]]
Pop(d, key) == [k \in DOMAIN d \ {key} |-> d[k]]
Restrict(f, S) == [k \in DOMAIN f \cap S |-> f[k]]

(***************************************************************************)
(* ops.quantize, ops.dequantize, ops.delta_encoding, ops.simplify and      *)
(* ops.np_array_from_arcs.  A point is <<x, y>>, a linestring a sequence   *)
(* of points.  The arc table carries a tag that records whether            *)
(* delta_encoding produced it: [enc |-> "delta" or "absolute", ls |-> ..]. *)
(***************************************************************************)
Pt(x, y) == <<x, y>>
NaNPt == <<NaN, NaN>>
AddPt(p, q) == Pt(RAdd(p[1], q[1]), RAdd(p[2], q[2]))
SubPt(p, q) == Pt(RSub(p[1], q[1]), RSub(p[2], q[2]))
Max(a, b) == IF a > b THEN a ELSE b

\* kx = 1 / ((quant_factor - 1) / (x1 - x0)), or 1 on a zero extent
QuantScale(lo, hi, quant_factor) ==
    IF RSub(hi, lo).n = 0 THEN R(1)
    ELSE RDiv(RSub(hi, lo), RSub(quant_factor, R(1)))

Transform(bbox, quant_factor) ==
    [scale |-> <<QuantScale(bbox[1], bbox[3], quant_factor),
                 QuantScale(bbox[2], bbox[4], quant_factor)>>,
     translate |-> <<bbox[1], bbox[2]>>]

QuantPoint(p, transform) ==
    Pt(R(Round(RDiv(RSub(p[1], transform.translate[1]), transform.scale[1]))),
       R(Round(RDiv(RSub(p[2], transform.translate[2]), transform.scale[2]))))

QuantLines(linestrings, transform) ==
    [i \in DOMAIN linestrings |->
        [j \in DOMAIN linestrings[i] |-> QuantPoint(linestrings[i][j], transform)]]

quantize(linestrings, bbox, quant_factor) ==
    [ls |-> QuantLines(linestrings, Transform(bbox, quant_factor)),
     transform |-> Transform(bbox, quant_factor)]

delta_line(ls) ==
    [j \in DOMAIN ls |-> IF j = 1 THEN ls[j] ELSE SubPt(ls[j], ls[j - 1])]

delta_encoding(linestrings) ==
    [i \in DOMAIN linestrings |-> delta_line(linestrings[i])]

RECURSIVE cumsum(_, _)
cumsum(ls, j) ==
    IF j = 1 THEN ls[1] ELSE AddPt(cumsum(ls, j - 1), ls[j])

dequantize(np_arcs, scale, translate) ==
    [i \in DOMAIN np_arcs |->
        [j \in DOMAIN np_arcs[i] |->
            AddPt(Pt(RMul(cumsum(np_arcs[i], j)[1], scale[1]),
                     RMul(cumsum(np_arcs[i], j)[2], scale[2])),
                  translate)]]

RECURSIVE MaxLen(_, _)
MaxLen(arcs, i) ==
    IF i = 0 THEN 0 ELSE Max(Len(arcs[i]), MaxLen(arcs, i - 1))

\* a rectangular array, the shorter arcs padded with NaN
Padded(arcs, width) ==
    [i \in DOMAIN arcs |->
        [j \in 1..width |-> IF j <= Len(arcs[i]) THEN arcs[i][j] ELSE NaNPt]]

np_array_from_arcs(arcs) == Padded(arcs, MaxLen(arcs, Len(arcs)))

\* ls[~np.isnan(ls)[:, 0]].tolist()
StripNaN(ls) == SelectSeq(ls, LAMBDA p : ~isnan(p[1]))
StripAll(np_arcs) == [i \in DOMAIN np_arcs |-> StripNaN(np_arcs[i])]

\* the interior positions of the arcs, the ones a simplifier may remove
Interior(arcs) ==
    UNION {{<<i, j>> : j \in 2..(Len(arcs[i]) - 1)} : i \in DOMAIN arcs}

RECURSIVE KeepLine(_, _, _, _)
KeepLine(ls, i, j, keep) ==
    IF j > Len(ls) THEN <<>>
    ELSE IF j = 1 \/ j = Len(ls) \/ <<i, j>> \in keep
         THEN <<ls[j]>> \o KeepLine(ls, i, j + 1, keep)
         ELSE KeepLine(ls, i, j + 1, keep)

KeepLines(arcs, keep) == [i \in DOMAIN arcs |-> KeepLine(arcs[i], i, 1, keep)]

\* The simplifier keeps the first and last point of every arc and, of the
\* interior points, the set `keep`; which ones a given epsilon, algorithm,
\* package and guard keep is left open.  With epsilon = 0 nothing is removed.
simplify(np_arcs, epsilon, keep) ==
    IF epsilon.n = 0 THEN StripAll(np_arcs)
    ELSE KeepLines(StripAll(np_arcs), keep)

Keeps(arcs, epsilon) ==
    IF epsilon.n = 0 THEN {Interior(arcs)} ELSE SUBSET Interior(arcs)

(***************************************************************************)
(* The input of a construction: the arc table and the direct coordinate    *)
(* table as the steps before _topo deliver them, in input coordinates.     *)
(* A geometry of type Point or MultiPoint refers to the coordinate table   *)
(* by nested 0-based indices, a LineString to the arc table.               *)
(***************************************************************************)
Half == Rat(1, 2)
Far == R(MaxCoord)

LinesData ==
    [arcs |-> << <<Pt(R(0), R(0)), Pt(Half, Far), Pt(Far, R(1))>>,
                 <<Pt(Far, R(1)), Pt(R(0), R(0))>> >>,
     coordinates |-> << <<Pt(Half, Rat(3, 2))>> >>,
     objects |-> << [type |-> "LineString", arcs |-> <<0, 1>>],
                    [type |-> "Point", coordinates |-> << <<0>> >>,
                     reset_coords |-> TRUE] >>]

PointsData ==
    [arcs |-> << >>,
     coordinates |-> << <<Pt(R(0), R(0))>>, <<Pt(Far, Rat(3, 2))>>, <<Pt(R(1), Half)>> >>,
     objects |-> << [type |-> "MultiPoint", coordinates |-> << << <<0>>, <<1>> >> >>,
                     reset_coords |-> TRUE],
                    [type |-> "MultiPoint", coordinates |-> << << <<2>> >> >>,
                     reset_coords |-> TRUE] >>]

Datasets == {"lines", "points"}
RawData(name) == IF name = "lines" THEN LinesData ELSE PointsData

RECURSIVE Flatten(_)
Flatten(ss) == IF ss = <<>> THEN <<>> ELSE Head(ss) \o Flatten(Tail(ss))

RECURSIVE Lowest(_, _, _)
Lowest(pts, axis, j) ==
    IF j = 1 THEN pts[1][axis] ELSE RMin(pts[j][axis], Lowest(pts, axis, j - 1))

RECURSIVE Highest(_, _, _)
Highest(pts, axis, j) ==
    IF j = 1 THEN pts[1][axis] ELSE RMax(pts[j][axis], Highest(pts, axis, j - 1))

Extent(pts) ==
    <<Lowest(pts, 1, Len(pts)), Lowest(pts, 2, Len(pts)),
      Highest(pts, 1, Len(pts)), Highest(pts, 2, Len(pts))>>

BBoxOf(raw) == Extent(Flatten(raw.arcs) \o Flatten(raw.coordinates))

(***************************************************************************)
(* Options.                                                                *)
(***************************************************************************)
Factors == {R(2), R(MaxFactor)}
Epsilons == {R(0), Half}
PrequantizeOptions == {PyFalse, PyTrue, PyNum(R(MaxFactor))}
TopoquantizeOptions == {PyFalse, PyTrue, PyNum(R(2))}
SimplifyOptions == {PyFalse, PyTrue, PyNum(Half)}

Options ==
    [prequantize : PrequantizeOptions, topoquantize : TopoquantizeOptions,
     toposimplify : SimplifyOptions]

\* an option that stands for a quantization factor: True is the default one
FactorOf(option) == IF option.bool THEN R(DefaultQuantFactor) ELSE option.val


(***************************************************************************)
(* State.  objs[t] is Topology object t: references to its output dict     *)
(* (in docs) and to its options object (in opts).  last records the last   *)
(* call: the operation, the object it was called on, its arguments,        *)
(* whether it raised, the object it returned (res, 0 for None) and the     *)
(* document it returned (ret, for to_dict).  calls counts the calls made.  *)
(***************************************************************************)
VARIABLES objs, docs, opts, last, calls

vars == <<objs, docs, opts, last, calls>>

Heap == [objs |-> objs, docs |-> docs, opts |-> opts]
HeapOf(r) == [objs |-> r.objs, docs |-> r.docs, opts |-> r.opts]
EmptyDict == [k \in {} |-> 0]

\* the points of a call at which a collaborator may raise, on this document
FailPoints(output, op) ==
    {"none"}
    \cup (IF Len(output["arcs"].ls) > 0 /\ "transform" \in DOMAIN output
          THEN {"dequantize"} ELSE {})
    \cup (IF Len(output["arcs"].ls) > 0 /\ op = "toposimplify"
          THEN {"simplify"} ELSE {})
    \cup (IF Len(output["arcs"].ls) > 0 /\ op = "topoquantize"
          THEN {"quantize_arcs", "delta_encoding"} ELSE {})
    \cup (IF "transform" \in DOMAIN output /\ op = "toposimplify"
          THEN {"quantize_arcs", "quantize_coords", "delta_encoding"} ELSE {})

(***************************************************************************)
(* copy.deepcopy(self): a new Topology object with its own output dict     *)
(* and its own options object, at the fresh address `new`.                 *)
(***************************************************************************)
\* fault variant: `result = self`, a second name for the same object
deepcopy_alias(h, t, new) ==
    [docs |-> h.docs, opts |-> h.opts, obj |-> h.objs[t]]

deepcopy(h, t, new) ==
    [docs |-> h.docs @@ (new :> h.docs[h.objs[t].output]),
     opts |-> h.opts @@ (new :> h.opts[h.objs[t].options]),
     obj |-> [output |-> new, options |-> new]]

\* result.output and result.options as a run leaves them
Store(c, run) ==
    [docs |-> [c.docs EXCEPT ![c.obj.output] = run.output],
     opts |-> [c.opts EXCEPT ![c.obj.options] = run.options],
     obj |-> c.obj]

\* the call ends without handing out `result`, which is collected
Drop(h, s, ok) ==
    [objs |-> h.objs, docs |-> Restrict(s.docs, DOMAIN h.docs),
     opts |-> Restrict(s.opts, DOMAIN h.opts), ok |-> ok, res |-> 0]

\* return result
Return(h, s) ==
    [objs |-> Append(h.objs, s.obj), docs |-> s.docs, opts |-> s.opts,
     ok |-> TRUE, res |-> Len(h.objs) + 1]

Raise(output, options) == [output |-> output, options |-> options, ok |-> FALSE]
Done(output, options) == [output |-> output, options |-> options, ok |-> TRUE]

HasTransform(output) == "transform" \in DOMAIN output
NoArcs(output) == Len(output["arcs"].ls) = 0

(***************************************************************************)
(* Topology.toposimplify, on the copy `result`.                            *)
(***************************************************************************)
quant_factor_of(options) ==
    IF Positive(options.topoquantize)
    THEN [bound |-> TRUE, value |-> FactorOf(options.topoquantize)]
    ELSE IF Positive(options.prequantize)
         THEN [bound |-> TRUE, value |-> FactorOf(options.prequantize)]
         ELSE [bound |-> FALSE, value |-> R(0)]

\* np_arcs, dequantized if quantization is applied
ts_np_arcs(output) ==
    IF HasTransform(output)
    THEN dequantize(np_array_from_arcs(output["arcs"].ls),
                    output["transform"].scale, output["transform"].translate)
    ELSE np_array_from_arcs(output["arcs"].ls)

\* result.output["arcs"] = simplify(np_arcs, epsilon, ...)
ts_simplify(output, epsilon, keep) ==
    IF NoArcs(output) THEN output
    ELSE Put(output, "arcs",
             [enc |-> IF HasTransform(output) THEN "absolute"
                      ELSE output["arcs"].enc,
              ls |-> simplify(ts_np_arcs(output), epsilon, keep)])

ts_quantize_arcs(output, quant_factor) ==
    Put(output, "arcs",
        [enc |-> "absolute",
         ls |-> quantize(output["arcs"].ls, output["bbox"], quant_factor).ls])

ts_quantize_coords(output, quant_factor) ==
    Put(output, "coordinates",
        quantize(output["coordinates"], output["bbox"], quant_factor).ls)

ts_delta_encoding(output, quant_factor) ==
    Put(Put(output, "arcs",
            [enc |-> "delta", ls |-> delta_encoding(output["arcs"].ls)]),
        "transform", Transform(output["bbox"], quant_factor))

ts_requantize_with(output, options, quant_factor, failAt) ==
    IF failAt = "quantize_coords"
    THEN Raise(ts_quantize_arcs(output, quant_factor), options)
    ELSE IF failAt = "delta_encoding"
    THEN Raise(ts_quantize_coords(ts_quantize_arcs(output, quant_factor),
                                  quant_factor), options)
    ELSE Done(ts_delta_encoding(
                  ts_quantize_coords(ts_quantize_arcs(output, quant_factor),
                                     quant_factor), quant_factor), options)

\* quantize again if quantization was applied
ts_requantize(output, options, failAt) ==
    IF ~HasTransform(output) THEN Done(output, options)
    ELSE IF ~quant_factor_of(options).bound \/ failAt = "quantize_arcs"
    THEN Raise(output, options)
    ELSE ts_requantize_with(output, options, quant_factor_of(options).value,
                            failAt)

toposimplify_run(output, options, epsilon, keep, failAt) ==
    IF ~NoArcs(output) /\ HasTransform(output) /\ failAt = "dequantize"
    THEN Raise(output, options)
    ELSE IF ~NoArcs(output) /\ failAt = "simplify"
    THEN Raise(output, options)
    ELSE ts_requantize(ts_simplify(output, epsilon, keep), options, failAt)

\* fault variant: `self.output = result.output`, every field written back
toposimplify_update_all(heapdocs, self, result) ==
    [heapdocs EXCEPT ![self] = heapdocs[result]]

\* inplace: update into self
toposimplify_update(heapdocs, self, result) ==
    IF HasTransform(heapdocs[result])
    THEN [heapdocs EXCEPT ![self] =
            Put(Put(@, "arcs", heapdocs[result]["arcs"]),
                "transform", heapdocs[result]["transform"])]
    ELSE [heapdocs EXCEPT ![self] = Put(@, "arcs", heapdocs[result]["arcs"])]

ts_update(s, self) ==
    [s EXCEPT !.docs = toposimplify_update(s.docs, self, s.obj.output)]

\* fault variant: the write-back into self is also done on the way out of a
\* call that raised
ts_return_eager(h, t, c, run, inplace) ==
    IF inplace
    THEN Drop(h, ts_update(Store(c, run), h.objs[t].output), run.ok)
    ELSE IF ~run.ok THEN Drop(h, Store(c, run), FALSE)
    ELSE Return(h, Store(c, run))

ts_return(h, t, c, run, inplace) ==
    IF ~run.ok THEN Drop(h, Store(c, run), FALSE)
    ELSE IF inplace
    THEN Drop(h, ts_update(Store(c, run), h.objs[t].output), TRUE)
    ELSE Return(h, Store(c, run))

ts_call(h, t, c, epsilon, keep, inplace, failAt) ==
    ts_return(h, t, c,
              toposimplify_run(c.docs[c.obj.output], c.opts[c.obj.options],
                               epsilon, keep, failAt),
              inplace)

toposimplify(h, t, epsilon, keep, inplace, failAt) ==
    ts_call(h, t, deepcopy(h, t, Len(h.objs) + 1), epsilon, keep, inplace, failAt)

(***************************************************************************)
(* Topology.topoquantize, on the copy `result`.                            *)
(***************************************************************************)
\* fault variant: the stored arcs are quantized as they are
tq_arcs_stale(output) == output["arcs"].ls

\* the arcs to quantize: dequantized if quantization is applied
tq_arcs(output) ==
    IF HasTransform(output)
    THEN StripAll(dequantize(np_array_from_arcs(output["arcs"].ls),
                             output["transform"].scale,
                             output["transform"].translate))
    ELSE output["arcs"].ls

tq_store(output, q) ==
    Put(Put(output, "arcs", [enc |-> "delta", ls |-> delta_encoding(q.ls)]),
        "transform", q.transform)

topoquantize_run(output, options, quant_factor, failAt) ==
    IF NoArcs(output) THEN Done(output, options)
    ELSE IF (HasTransform(output) /\ failAt = "dequantize")
            \/ failAt = "quantize_arcs" \/ failAt = "delta_encoding"
    THEN Raise(output, options)
    ELSE Done(tq_store(output, quantize(tq_arcs(output), output["bbox"],
                                        quant_factor)),
              [options EXCEPT !.topoquantize = PyNum(quant_factor)])

\* `if not arcs: return result` hands the copy out whatever inplace is;
\* `self = result` rebinds the local name only, and None is returned
tq_return(h, t, c, run, inplace) ==
    IF ~run.ok THEN Drop(h, Store(c, run), FALSE)
    ELSE IF inplace /\ ~NoArcs(c.docs[c.obj.output])
    THEN Drop(h, Store(c, run), TRUE)
    ELSE Return(h, Store(c, run))

tq_call(h, t, c, quant_factor, inplace, failAt) ==
    tq_return(h, t, c,
              topoquantize_run(c.docs[c.obj.output], c.opts[c.obj.options],
                               quant_factor, failAt),
              inplace)

topoquantize(h, t, quant_factor, inplace, failAt) ==
    tq_call(h, t, deepcopy(h, t, Len(h.objs) + 1), quant_factor, inplace, failAt)

(***************************************************************************)
(* Construction.  Hashmap_output is self.output as the steps before _topo  *)
(* leave it: prequantized linestrings and coordinate table with the        *)
(* transform when options.prequantize > 0, the input coordinates           *)
(* otherwise.                                                              *)
(***************************************************************************)
Prequantized(raw, bbox, f) ==
    [type |-> "Topology", bbox |-> bbox, objects |-> raw.objects,
     linestrings |-> quantize(raw.arcs, bbox, f).ls,
     coordinates |-> quantize(raw.coordinates, bbox, f).ls,
     transform |-> Transform(bbox, f)]

Hashmap_output(raw, options) ==
    IF Positive(options.prequantize)
    THEN Prequantized(raw, BBoxOf(raw), FactorOf(options.prequantize))
    ELSE [type |-> "Topology", bbox |-> BBoxOf(raw), objects |-> raw.objects,
          linestrings |-> raw.arcs, coordinates |-> raw.coordinates]

\* fault variant: delta-encoding applied whatever options.prequantize is
_topo_arcs_delta(linestrings, options) ==
    [enc |-> "delta", ls |-> delta_encoding(linestrings)]

\* the arc table once delta-encoding has or has not been applied
_topo_arcs(linestrings, options) ==
    IF Positive(options.prequantize)
    THEN [enc |-> "delta", ls |-> delta_encoding(linestrings)]
    ELSE [enc |-> "absolute", ls |-> linestrings]

_topo_output(data, options) ==
    Put(Pop(data, "linestrings"), "arcs", _topo_arcs(data["linestrings"], options))

simplify_factor(options) ==
    IF options.toposimplify.bool THEN Rat(1, 10000) ELSE options.toposimplify.val

_topo_simplify(h, t, options, keep) ==
    IF Positive(options.toposimplify)
    THEN HeapOf(toposimplify(h, t, simplify_factor(options), keep, TRUE, "none"))
    ELSE h

_topo(h, t, keep) ==
    _topo_simplify(
        [h EXCEPT !.docs[h.objs[t].output] =
            _topo_output(@, h.opts[h.objs[t].options])],
        t, h.opts[h.objs[t].options], keep)

Construct(raw, options, keep) ==
    _topo([objs |-> <<[output |-> 1, options |-> 1]>>,
           docs |-> (1 :> Hashmap_output(raw, options)),
           opts |-> (1 :> options)], 1, keep)

\* the simplifier's choices at construction
ConstructKeeps(raw, options) ==
    IF ~Positive(options.toposimplify) THEN {{}}
    ELSE Keeps(raw.arcs, simplify_factor(options))

(***************************************************************************)
(* Topology._resolve_coords and to_dict.                                   *)
(***************************************************************************)
\* list(itertools.chain(*lofl))
chain(lofl) == Flatten(lofl)

\* lofl[idx] = [int(coord.xy[0][0]), int(coord.xy[1][0])]
resolve_vals(lofl, table) ==
    [k \in DOMAIN lofl |->
        <<R(int(table[lofl[k] + 1][1][1])), R(int(table[lofl[k] + 1][1][2]))>>]

\* feat["coordinates"] = lofl[0] if len(lofl) == 1 else lofl
resolve_store(feat, lofl) ==
    Pop(Put(feat, "coordinates", IF Len(lofl) = 1 THEN lofl[1] ELSE lofl),
        "reset_coords")

resolve_feat(feat, table) ==
    IF feat["type"] = "Point"
    THEN resolve_store(feat, resolve_vals(chain(feat["coordinates"]), table))
    ELSE IF feat["type"] = "MultiPoint"
    THEN resolve_store(feat, resolve_vals(chain(chain(feat["coordinates"])), table))
    ELSE feat

_resolve_coords(data) ==
    Pop(Put(data, "objects",
            [g \in DOMAIN data["objects"] |->
                resolve_feat(data["objects"][g], data["coordinates"])]),
        "coordinates")

with_options(topo_object, options, include) ==
    IF include THEN Put(topo_object, "options", options) ELSE topo_object

to_dict(h, t, options) ==
    with_options(_resolve_coords(h.docs[h.objs[t].output]),
                 h.opts[h.objs[t].options], options)

(***************************************************************************)
(* The state machine.                                                      *)
(***************************************************************************)
Call(op, t, arg, inplace, r, ret) ==
    [op |-> op, self |-> t, arg |-> arg, inplace |-> inplace,
     failed |-> ~r.ok, res |-> r.res, ret |-> ret]

Init ==
    \E name \in Datasets, options \in Options :
        \E keep \in ConstructKeeps(RawData(name), options) :
            \E h \in {Construct(RawData(name), options, keep)} :
                /\ objs = h.objs
                /\ docs = h.docs
                /\ opts = h.opts
                /\ last = Call("init", 1, R(0), FALSE,
                               [ok |-> TRUE, res |-> 1], EmptyDict)
                /\ calls = 0

Topoquantize ==
    /\ calls < MaxCalls
    /\ calls' = calls + 1
    /\ \E t \in DOMAIN objs, f \in Factors, inplace \in BOOLEAN :
        \E failAt \in FailPoints(docs[objs[t].output], "topoquantize") :
            \E r \in {topoquantize(Heap, t, f, inplace, failAt)} :
                /\ objs' = r.objs
                /\ docs' = r.docs
                /\ opts' = r.opts
                /\ last' = Call("topoquantize", t, f, inplace, r, EmptyDict)

Toposimplify ==
    /\ calls < MaxCalls
    /\ calls' = calls + 1
    /\ \E t \in DOMAIN objs, epsilon \in Epsilons, inplace \in BOOLEAN :
        LET keeps == Keeps(docs[objs[t].output]["arcs"].ls, epsilon)
            fails == FailPoints(docs[objs[t].output], "toposimplify")
        IN  \E keep \in keeps, failAt \in fails :
                \E r \in {toposimplify(Heap, t, epsilon, keep, inplace, failAt)} :
                    /\ objs' = r.objs
                    /\ docs' = r.docs
                    /\ opts' = r.opts
                    /\ last' = Call("toposimplify", t, epsilon, inplace, r,
                                    EmptyDict)

ToDict ==
    /\ calls < MaxCalls
    /\ calls' = calls + 1
    /\ \E t \in DOMAIN objs, options \in BOOLEAN :
        /\ last' = Call("to_dict", t, R(0), FALSE,
                        [ok |-> TRUE, res |-> 0], to_dict(Heap, t, options))
        /\ UNCHANGED <<objs, docs, opts>>

Next == Topoquantize \/ Toposimplify \/ ToDict

Spec == Init /\ [][Next]_vars

(***************************************************************************)
(* Properties.  In an action formula the unprimed heap is the state before *)
(* the call that last' describes and the primed heap the state after it.   *)
(***************************************************************************)
Transforms == {"topoquantize", "toposimplify"}

\* the arcs and transform fields of a document, and its other fields
Quantization(output) == Restrict(output, {"arcs", "transform"})
Others(output) == Restrict(output, DOMAIN output \ {"arcs", "transform"})

\* the document a call that returns a topology returns
Returned(r) == r.docs[r.objs[r.res].output]

\* C1: after T.topoquantize(f, inplace=True) on a topology T with at least
\* one arc, T's document has the arcs and transform of the document that
\* T.topoquantize(f, inplace=False) returns from the same starting state.
C1_InplaceTopoquantizeEqualsCopy ==
    [][(/\ last'.op = "topoquantize"
        /\ last'.inplace
        /\ ~last'.failed
        /\ ~NoArcs(docs[objs[last'.self].output]))
       => Quantization(docs'[objs'[last'.self].output])
           = Quantization(Returned(topoquantize(Heap, last'.self, last'.arg,
                                                FALSE, "none")))]_vars

\* C2: topoquantize and toposimplify with inplace=False leave the topology
\* they are called on unchanged (object, whole document, options), the
\* topology they return shares neither its document nor its options object
\* with an existing one, and a transform applied to one topology, in place
\* or not, never changes the document or options of another one.
C2_CopyIsIndependent ==
    [][(last'.op \in Transforms)
       => /\ \A t \in DOMAIN objs :
                (t # last'.self \/ ~last'.inplace)
                => /\ objs'[t] = objs[t]
                   /\ docs'[objs[t].output] = docs[objs[t].output]
                   /\ opts'[objs[t].options] = opts[objs[t].options]
          /\ last'.res # 0
             => /\ objs'[last'.res].output
                    \notin {objs[t].output : t \in DOMAIN objs}
                /\ objs'[last'.res].options
                    \notin {objs[t].options : t \in DOMAIN objs}]_vars

\* a transform was applied, not in place, to a topology that an earlier
\* call returned, and what it returned differs from what it was called on
C2_Witness ==
    /\ last.op \in Transforms
    /\ ~last.inplace
    /\ last.res # 0
    /\ last.self # 1
    /\ ~NoArcs(docs[objs[last.self].output])
    /\ docs[objs[last.res].output] # docs[objs[last.self].output]
    /\ opts[objs[last.res].options] # opts[objs[last.self].options]

\* C3: after topoquantize or toposimplify with inplace=True, the caller's
\* document has the same fields as before and every field other than arcs
\* and transform (bbox, objects, the coordinate table, type) has the value
\* it had before the call.
C3_InplaceFrame ==
    [][(last'.op \in Transforms /\ last'.inplace)
       => /\ objs'[last'.self] = objs[last'.self]
          /\ Others(docs'[objs[last'.self].output])
              = Others(docs[objs[last'.self].output])]_vars

\* toposimplify(1/2, inplace=True) was the first call on a quantized topology
\* constructed without simplification, and has removed the interior point
C3_Witness ==
    /\ last.op = "toposimplify"
    /\ last.inplace
    /\ ~last.failed
    /\ last.arg = Half
    /\ calls = 1
    /\ ~Positive(opts[objs[last.self].options].toposimplify)
    /\ HasTransform(docs[objs[last.self].output])
    /\ ~NoArcs(docs[objs[last.self].output])
    /\ Interior(docs[objs[last.self].output]["arcs"].ls) = {}
    /\ "coordinates" \in DOMAIN docs[objs[last.self].output]

\* C4: an in-place transform that raises at any step (dequantize, simplify,
\* factor selection, quantize, delta-encode) leaves the whole heap, the
\* caller's document and options included, as it was before the call; and
\* after any in-place call the caller's arcs and transform are together the
\* ones it held before or together the ones the call computed.
C4_InplaceAllOrNothing ==
    [][(last'.op \in Transforms /\ last'.inplace)
       => /\ last'.failed => (objs' = objs /\ docs' = docs /\ opts' = opts)
          /\ \/ Quantization(docs'[objs[last'.self].output])
                 = Quantization(docs[objs[last'.self].output])
             \/ /\ last'.op = "toposimplify"
                /\ \E keep \in Keeps(docs[objs[last'.self].output]["arcs"].ls,
                                     last'.arg) :
                      Quantization(docs'[objs[last'.self].output])
                       = Quantization(Returned(
                             toposimplify(Heap, last'.self, last'.arg, keep,
                                          FALSE, "none")))]_vars

\* an in-place toposimplify on a quantized topology with arcs raised
C4_Witness ==
    /\ last.op = "toposimplify"
    /\ last.inplace
    /\ last.failed
    /\ HasTransform(docs[objs[last.self].output])
    /\ ~NoArcs(docs[objs[last.self].output])

\* C5: in every topology on the heap, after construction and after every
\* sequence of topoquantize and toposimplify calls, the arc table is
\* delta-encoded if and only if the document has a transform.
C5_DeltaIffTransform ==
    \A d \in DOMAIN docs :
        (docs[d]["arcs"].enc = "delta") <=> HasTransform(docs[d])

\* toposimplify returned a quantized topology with arcs, delta-encoded
C5_Witness ==
    /\ last.op = "toposimplify"
    /\ last.res # 0
    /\ ~NoArcs(docs[objs[last.res].output])
    /\ HasTransform(docs[objs[last.res].output])
    /\ docs[objs[last.res].output]["arcs"].enc = "delta"

\* C6: after toposimplify has run the simplifier on a topology with arcs,
\* the returned arcs are quantized and delta-encoded at the
\* options.topoquantize factor if that option is set, else at the
\* options.prequantize factor if that option is set (True standing for the
\* default factor), and are unquantized only when neither option is set.
C6_FactorSelection ==
    [][(/\ last'.op = "toposimplify"
        /\ ~last'.inplace
        /\ ~last'.failed
        /\ ~NoArcs(docs[objs[last'.self].output]))
       => IF quant_factor_of(opts[objs[last'.self].options]).bound
          THEN /\ HasTransform(docs'[objs'[last'.res].output])
               /\ docs'[objs'[last'.res].output]["transform"]
                   = Transform(docs[objs[last'.self].output]["bbox"],
                               quant_factor_of(opts[objs[last'.self].options]).value)
               /\ docs'[objs'[last'.res].output]["arcs"].enc = "delta"
          ELSE /\ ~HasTransform(docs'[objs'[last'.res].output])
               /\ docs'[objs'[last'.res].output]["arcs"].enc = "absolute"]_vars

\* C7: a topology with arcs constructed with the topoquantize option set to
\* a factor f carries the transform of f and delta-encoded arcs, whatever
\* the prequantize and toposimplify options are.
C7_ConstructedQuantized ==
    (/\ last.op = "init"
     /\ Positive(opts[objs[1].options].topoquantize)
     /\ ~NoArcs(docs[objs[1].output]))
    => /\ HasTransform(docs[objs[1].output])
       /\ docs[objs[1].output]["transform"]
           = Transform(docs[objs[1].output]["bbox"],
                       FactorOf(opts[objs[1].options].topoquantize))
       /\ docs[objs[1].output]["arcs"].enc = "delta"

\* C8: for a topology T with arcs and a factor f, with T1 = T.topoquantize(f)
\* and T2 = T1.topoquantize(f), the arcs and transform of T2 are those of T1.
C8_RequantizeIdempotent ==
    [][(/\ last.op = "topoquantize"
        /\ ~last.inplace
        /\ ~last.failed
        /\ last.res # 0
        /\ last'.op = "topoquantize"
        /\ ~last'.inplace
        /\ ~last'.failed
        /\ last'.self = last.res
        /\ last'.arg = last.arg
        /\ ~NoArcs(docs[objs[last.res].output]))
       => Quantization(docs'[objs'[last'.res].output])
           = Quantization(docs[objs[last.res].output])]_vars

\* topology 3 is topology 2 quantized at the factor that topology 2 was
\* itself quantized at, both differ from the constructed topology 1, and
\* the two hold the same quantized arcs
C8_Witness ==
    /\ last.op = "topoquantize"
    /\ ~last.failed
    /\ last.self = 2
    /\ last.res = 3
    /\ ~NoArcs(docs[objs[3].output])
    /\ opts[objs[2].options].topoquantize = PyNum(last.arg)
    /\ opts[objs[1].options].topoquantize # PyNum(last.arg)
    /\ Quantization(docs[objs[2].output]) # Quantization(docs[objs[1].output])
    /\ Quantization(docs[objs[3].output]) = Quantization(docs[objs[2].output])

\* C9: for every constructed topology T, whatever its options, the arcs and
\* transform of the topology T.toposimplify(0) returns are those of T.
C9_SimplifyZeroIsNoop ==
    [][(/\ last.op = "init"
        /\ last'.op = "toposimplify"
        /\ last'.arg = R(0)
        /\ ~last'.inplace
        /\ ~last'.failed)
       => Quantization(docs'[objs'[last'.res].output])
           = Quantization(docs[objs[last'.self].output])]_vars

\* the literal coordinates of table entry val: its one point, as a pair
Literal(table, val) == table[val + 1][1]

\* C10: the document to_dict returns has no coordinate table, each Point of
\* it carries the one pair its index referred to, each MultiPoint the list
\* of the pairs its indices referred to, one per point (a list also when
\* there is one point), and the stored document still holds the table and
\* the indices.
C10_Materialised ==
    (last.op = "to_dict")
    => /\ "coordinates" \notin DOMAIN last.ret
       /\ "coordinates" \in DOMAIN docs[objs[last.self].output]
       /\ \A g \in DOMAIN docs[objs[last.self].output]["objects"] :
            LET feat == docs[objs[last.self].output]["objects"][g]
                table == docs[objs[last.self].output]["coordinates"]
                out == last.ret["objects"][g]
            IN  /\ feat["type"] = "Point"
                   => /\ "reset_coords" \in DOMAIN feat
                      /\ out["coordinates"]
                          = Literal(table, chain(feat["coordinates"])[1])
                /\ feat["type"] = "MultiPoint"
                   => /\ "reset_coords" \in DOMAIN feat
                      /\ out["coordinates"]
                          = [k \in DOMAIN chain(chain(feat["coordinates"])) |->
                                Literal(table,
                                        chain(chain(feat["coordinates"]))[k])]

\* the input a document was constructed from: no call changes its objects
OriginalOf(output) ==
    IF output["objects"] = LinesData.objects THEN LinesData ELSE PointsData

\* C11: in every quantized topology on the heap, after construction and
\* after every sequence of topoquantize and toposimplify calls, each entry
\* of the coordinate table is the quantization of its original position
\* under the document's current transform, the grid of the arcs.
C11_CoordinatesOnArcGrid ==
    \A d \in DOMAIN docs :
        HasTransform(docs[d])
        => docs[d]["coordinates"]
            = QuantLines(OriginalOf(docs[d]).coordinates, docs[d]["transform"])
====
